---- MODULE Spec2Model ----
(***************************************************************************)
(* Credits ledger and payment reconciliation of the screenshot-to-code     *)
(* application: Account.credits_remaining, the credits_transactions        *)
(* ledger, orders and the Stripe webhook, conversions and their            *)
(* processing threads.                                                     *)
(*                                                                         *)
(* The committed database rows are the variables credits_remaining,        *)
(* ledger, orders, conversions, uses_count and redemptions.  A web request *)
(* is a record req[w] of the worker w that serves it: the rows it has      *)
(* loaded into its SQLAlchemy session (a snapshot) and its position in the *)
(* handler.  A handler that reads, computes in Python and then commits is  *)
(* split at its commit, where it writes the values computed from the       *)
(* snapshot (SQLAlchemy emits UPDATE ... SET col = <value>).               *)
(* One account is modelled; credits are counted in whole credits.          *)
(***************************************************************************)
EXTENDS Integers, Sequences, FiniteSets, TLC

VARIABLES credits_remaining, ledger, orders, conversions, uses_count,
          redemptions, req, threads,
          failed_login_attempts, locked_until, stripe_refunds

dbVars == <<credits_remaining, ledger, orders, conversions, uses_count, redemptions>>
(* The account's login columns, and the refunds the payment provider has   *)
(* issued for each order's payment.                                        *)
loginVars == <<failed_login_attempts, locked_until>>
extVars == <<failed_login_attempts, locked_until, stripe_refunds>>
vars == <<credits_remaining, ledger, orders, conversions, uses_count,
          redemptions, req, threads,
          failed_login_attempts, locked_until, stripe_refunds>>

(* ------------------------------ constants ------------------------------ *)
FREE_CREDITS_ON_SIGNUP == 3
CREDITS_PER_CONVERSION == 1
MAX_USER_RETRIES == 3
MAX_FAILED_LOGINS == 5
PROMO_MAX_USES_PER_USER == 1

(* -------------------------------- bounds ------------------------------- *)
MaxLedger == 3
MaxThreads == 1
MaxCredits == 6
MaxRetryCount == 4
MaxPackageCredits == 2
MaxAdjust == 2
MaxAmount == 2
MaxLoginCount == 7
MaxRows == 2
MaxOrders == MaxRows
PromoCredits == 1
PromoMaxUses == 2

Workers == {1, 2}
ThreadIds == DOMAIN threads
PackageCredits == 1..MaxPackageCredits
AdjustAmounts == ((0 - MaxAdjust)..MaxAdjust) \ {0}

(* ------------------------------- helpers ------------------------------- *)
RECURSIVE SumAmounts(_)
SumAmounts(s) == IF s = <<>> THEN 0 ELSE Head(s).amount + SumAmounts(Tail(s))

(* A credits_transactions row.  conv stands for the conversion uuid that   *)
(* the description embeds (0: none); order_id 0 is NULL.                   *)
CreditsTransaction(amount, balance_after, transaction_type, description, order_id, conv) ==
    [amount |-> amount, balance_after |-> balance_after,
     transaction_type |-> transaction_type, description |-> description,
     order_id |-> order_id, conv |-> conv]

Idle == [pc |-> "idle", op |-> "none", oid |-> 0, cid |-> 0, credits |-> 0,
         status |-> "none", result |-> "none", signature |-> "none", http |-> 0]

NoThread == [pc |-> "free", cid |-> 0, rc |-> 0]

(* ------------------- faulty variants of the operators ------------------ *)
(* Each one is a defect the properties below have to detect.               *)
has_credits_always(credits, amount) == TRUE

add_credits_row_only(credits, amount, description, order_id, conv) ==
    [credits |-> credits,
     tx |-> CreditsTransaction(amount, credits + amount, "purchase", description, order_id, conv)]

session_keeps_changes(committed, in_memory) == in_memory

already_processed_never(status) == FALSE

first_attempt_any_failure(retry_count) == retry_count >= 1

verify_webhook_signature_present(signature) == signature # "missing"

webhook_response_500(raised) == IF raised THEN 500 ELSE 200

has_credits_more_than(credits, amount) == credits > amount

deduct_credits_unsigned_row(credits, amount, description, conv) ==
    [ok |-> credits >= amount,
     credits |-> credits - amount,
     tx |-> CreditsTransaction(amount, credits - amount, "usage", description, 0, conv)]

refund_refused_without_payment(status, stripe_payment_id) == stripe_payment_id = 0

refund_debit_always(current_credits, refund_amount) == TRUE

increment_failed_login_never_locks(attempts, until) ==
    [failed_login_attempts |-> attempts + 1, locked_until |-> until]

(* ------------------------ Account (app/models.py) ---------------------- *)
has_credits(credits, amount) == credits >= amount

(* deduct_credits on the in-memory account: the new balance and the usage  *)
(* row, or the ValueError.                                                 *)
deduct_credits(credits, amount, description, conv) ==
    [ok |-> has_credits(credits, amount),
     credits |-> credits - amount,
     tx |-> CreditsTransaction(0 - amount, credits - amount, "usage", description, 0, conv)]

add_credits(credits, amount, description, order_id, conv) ==
    [credits |-> credits + amount,
     tx |-> CreditsTransaction(amount, credits + amount, "purchase", description, order_id, conv)]

(* db.session.rollback() in the handlers' except blocks: the session's     *)
(* pending changes are dropped, the committed balance stays, and the       *)
(* expired account reloads it.                                             *)
session_rollback(committed, in_memory) == committed

(* A new account: register() sets FREE_CREDITS_ON_SIGNUP. *)
Init ==
    /\ credits_remaining = FREE_CREDITS_ON_SIGNUP
    /\ ledger = <<>>
    /\ orders = <<>>
    /\ conversions = <<>>
    /\ uses_count = 0
    /\ redemptions = 0
    /\ req = [w \in Workers |-> Idle]
    /\ threads = [t \in 1..MaxThreads |-> NoThread]
    /\ failed_login_attempts = 0
    /\ locked_until = "none"
    /\ stripe_refunds = [o \in 1..MaxOrders |-> 0]

AllIdle == \A w \in Workers : req[w].pc = "idle"

FreeThreads == {t \in ThreadIds : threads[t].pc = "free"}
FirstFree == CHOOSE t \in FreeThreads : \A u \in FreeThreads : t <= u

(* threading.Thread(target = ...).start() of a daemon thread.  MaxThreads   *)
(* threads are followed; one started beyond them is taken to end with its  *)
(* process before its first statement.                                     *)
Spawn(pc, cid, rc) ==
    IF FreeThreads = {} THEN threads
    ELSE [threads EXCEPT ![FirstFree] = [pc |-> pc, cid |-> cid, rc |-> rc]]

Done(w, op, result) == [req EXCEPT ![w] = [Idle EXCEPT !.pc = "done", !.op = op, !.result = result]]

(* The response has been sent; the worker takes the next request. *)
respond(w) ==
    /\ req[w].pc = "done"
    /\ req' = [req EXCEPT ![w] = Idle]
    /\ UNCHANGED <<dbVars, threads>>
    /\ UNCHANGED extVars

(* ------------------------ login (app/auth/routes.py) ------------------- *)
(* locked_until is "none" (NULL), "future" (later than utcnow()) or "past". *)
is_locked(until) == until = "future"

increment_failed_login(attempts, until) ==
    [failed_login_attempts |-> attempts + 1,
     locked_until |-> IF attempts + 1 >= MAX_FAILED_LOGINS THEN "future" ELSE until]

reset_failed_login(attempts, until) ==
    [failed_login_attempts |-> 0, locked_until |-> "none"]

(* POST /auth/login for the account's email, with the right or a wrong     *)
(* password.                                                               *)
login(w) ==
    /\ req[w].pc = "idle"
    /\ \E password_ok \in BOOLEAN :
          IF is_locked(locked_until)
          THEN /\ req' = Done(w, "login", "locked")
               /\ UNCHANGED loginVars
          ELSE IF ~password_ok
          THEN /\ failed_login_attempts < MaxLoginCount
               /\ LET a == increment_failed_login(failed_login_attempts, locked_until)
                  IN /\ failed_login_attempts' = a.failed_login_attempts
                     /\ locked_until' = a.locked_until
               /\ req' = Done(w, "login", "invalid")
          ELSE /\ LET a == reset_failed_login(failed_login_attempts, locked_until)
                  IN /\ failed_login_attempts' = a.failed_login_attempts
                     /\ locked_until' = a.locked_until
               /\ req' = Done(w, "login", "welcome")
    /\ UNCHANGED <<dbVars, threads, stripe_refunds>>

(* utcnow() passes locked_until: the 30 minutes of a lock are over. *)
lock_expires ==
    /\ locked_until = "future"
    /\ locked_until' = "past"
    /\ UNCHANGED <<dbVars, req, threads, failed_login_attempts, stripe_refunds>>

(* --------------- direct calls of the Account methods ------------------- *)
(* account.deduct_credits(amount) with a positive amount: the ValueError     *)
(* leaves the account as it was.                                           *)
call_deduct_credits(w) ==
    /\ req[w].pc = "idle"
    /\ Len(ledger) < MaxLedger
    /\ \E amount \in 1..MaxAmount :
          LET r == deduct_credits(credits_remaining, amount, "Conversion", 0)
          IN IF r.ok
             THEN /\ credits_remaining' = r.credits
                  /\ ledger' = Append(ledger, r.tx)
                  /\ req' = [req EXCEPT ![w] = [Idle EXCEPT !.pc = "done", !.op = "deduct_credits",
                                                 !.credits = amount, !.result = "ok"]]
             ELSE /\ req' = [req EXCEPT ![w] = [Idle EXCEPT !.pc = "done", !.op = "deduct_credits",
                                                 !.credits = amount,
                                                 !.result = "Insufficient credits"]]
                  /\ UNCHANGED <<credits_remaining, ledger>>
    /\ UNCHANGED <<orders, conversions, uses_count, redemptions, threads>>
    /\ UNCHANGED extVars

(* account.add_credits(amount) with a positive amount. *)
call_add_credits(w) ==
    /\ req[w].pc = "idle"
    /\ Len(ledger) < MaxLedger
    /\ \E amount \in 1..MaxAmount :
          LET r == add_credits(credits_remaining, amount, "Credit purchase", 0, 0)
          IN /\ r.credits <= MaxCredits
             /\ credits_remaining' = r.credits
             /\ ledger' = Append(ledger, r.tx)
             /\ req' = [req EXCEPT ![w] = [Idle EXCEPT !.pc = "done", !.op = "add_credits",
                                            !.credits = amount, !.result = "ok"]]
    /\ UNCHANGED <<orders, conversions, uses_count, redemptions, threads>>
    /\ UNCHANGED extVars

(* ---------------------- upload (app/converter/routes.py) --------------- *)
(* db.session.refresh(current_user) and the has_credits() redirect. *)
upload_refresh(w) ==
    /\ req[w].pc = "idle"
    /\ Len(ledger) < MaxLedger
    /\ Len(orders) + Len(conversions) < MaxRows
    /\ IF has_credits(credits_remaining, CREDITS_PER_CONVERSION)
       THEN req' = [req EXCEPT ![w] = [Idle EXCEPT !.pc = "upload", !.op = "upload",
                                                   !.credits = credits_remaining]]
       ELSE req' = Done(w, "upload", "no_credits")
    /\ UNCHANGED <<dbVars, threads>>
    /\ UNCHANGED extVars

(* deduct_credits(1.0), the commit of the conversion row with it, and the  *)
(* start of the processing thread.                                         *)
upload_deduct(w) ==
    /\ req[w].pc = "upload"
    /\ LET r == deduct_credits(req[w].credits, CREDITS_PER_CONVERSION, "Conversion",
                               Len(conversions) + 1)
       IN IF r.ok
          THEN /\ credits_remaining' = r.credits
               /\ ledger' = Append(ledger, r.tx)
               /\ conversions' = Append(conversions, [status |-> "pending", retry_count |-> 0])
               /\ threads' = Spawn("start", Len(conversions) + 1, 0)
               /\ req' = Done(w, "upload", "ok")
          ELSE /\ req' = Done(w, "upload", "Insufficient credits")
               /\ UNCHANGED <<credits_remaining, ledger, conversions, threads>>
    /\ UNCHANGED <<orders, uses_count, redemptions>>
    /\ UNCHANGED extVars

(* A failure inside deduct_credits after self.credits_remaining was        *)
(* changed (the commit raises): upload's except block rolls back.          *)
upload_deduct_fails(w) ==
    /\ req[w].pc = "upload"
    /\ LET r == deduct_credits(req[w].credits, CREDITS_PER_CONVERSION, "Conversion", 0)
       IN /\ r.ok
          /\ credits_remaining' = session_rollback(credits_remaining, r.credits)
          /\ req' = [req EXCEPT ![w] = [Idle EXCEPT !.pc = "done", !.op = "upload",
                        !.result = "error",
                        !.credits = session_rollback(credits_remaining, r.credits)]]
    /\ UNCHANGED <<ledger, orders, conversions, uses_count, redemptions, threads>>
    /\ UNCHANGED extVars

(* thread.start() raises after the conversion and the deduction were       *)
(* committed: rollback, then add_credits(1.0, 'Refund for failed           *)
(* conversion start ...'); the conversion stays pending without a thread.  *)
upload_start_fails(w) ==
    /\ req[w].pc = "upload"
    /\ Len(ledger) + 2 <= MaxLedger
    /\ LET c == Len(conversions) + 1
           d == deduct_credits(req[w].credits, CREDITS_PER_CONVERSION, "Conversion", c)
           a == add_credits(d.credits, CREDITS_PER_CONVERSION,
                            "Refund for failed conversion start", 0, c)
       IN /\ d.ok
          /\ credits_remaining' = a.credits
          /\ ledger' = ledger \o <<d.tx, a.tx>>
          /\ conversions' = Append(conversions, [status |-> "pending", retry_count |-> 0])
          /\ req' = Done(w, "upload", "start failed")
    /\ UNCHANGED <<orders, uses_count, redemptions, threads>>
    /\ UNCHANGED extVars

(* ------------- create_checkout_session (app/payment/stripe_utils.py) --- *)
(* The order is committed pending and then with the id of its Stripe       *)
(* session; when the Stripe call raises it is committed failed and no      *)
(* session exists for it.                                                  *)
create_checkout_session(w) ==
    /\ req[w].pc = "idle"
    /\ Len(orders) + Len(conversions) < MaxRows
    /\ \E credits \in PackageCredits, stripe_ok \in BOOLEAN :
          /\ orders' = Append(orders, [status |-> IF stripe_ok THEN "pending" ELSE "failed",
                                       credits_purchased |-> credits,
                                       stripe_session_id |->
                                           IF stripe_ok THEN Len(orders) + 1 ELSE 0,
                                       stripe_payment_id |-> 0])
          /\ req' = Done(w, "checkout", IF stripe_ok THEN "redirect" ELSE "error")
    /\ UNCHANGED <<credits_remaining, ledger, conversions, uses_count, redemptions, threads>>
    /\ UNCHANGED extVars

(* ------------------------ cancel (app/payment/routes.py) --------------- *)
cancel(w) ==
    /\ req[w].pc = "idle"
    /\ \E o \in 1..Len(orders) :
          /\ orders' = IF orders[o].status = "pending"
                       THEN [orders EXCEPT ![o].status = "failed"]
                       ELSE orders
          /\ req' = [req EXCEPT ![w] = [Idle EXCEPT !.pc = "done", !.op = "cancel", !.oid = o,
                                                    !.result = "200"]]
    /\ UNCHANGED <<credits_remaining, ledger, conversions, uses_count, redemptions, threads>>
    /\ UNCHANGED extVars

(* ------------- handle_checkout_completed (stripe_utils.py) ------------- *)
CheckoutEvents == {"checkout.session.completed", "checkout.session.async_payment_succeeded"}
OtherEvents == {"payment_intent.payment_failed", "charge.refunded", "customer.created"}

(* "Check if already processed" *)
already_processed(status) == status = "completed"

(* Stripe sends session events for the sessions it has created; the order  *)
(* named in the session's metadata may be gone from the database.          *)
HasSession(o) == o <= Len(orders) => orders[o].stripe_session_id # 0

(* --------------------- webhook (app/payment/routes.py) ----------------- *)
(* The Stripe-Signature header of a delivery: absent, not verifying, on a  *)
(* payload that does not parse, or valid.                                  *)
Signatures == {"missing", "invalid", "malformed", "valid"}

(* "if not signature" and verify_webhook_signature: only a valid signature *)
(* yields an event.                                                        *)
verify_webhook_signature(signature) == signature = "valid"

(* The 400 answers, given before the event is looked at. *)
webhook_rejected(w, signature) ==
    [req EXCEPT ![w] = [Idle EXCEPT !.pc = "done", !.op = "webhook", !.signature = signature,
                                    !.result = "rejected", !.http = 400]]

(* The status the webhook answers with after verification, the handler     *)
(* having raised or not.                                                   *)
webhook_response(raised) == 200

(* Order.query.get(order_id) and the already-completed check. *)
handle_checkout_completed_order(w) ==
    /\ req[w].pc = "idle"
    /\ \E signature \in Signatures, etype \in CheckoutEvents, o \in 1..MaxOrders :
          /\ HasSession(o)
          /\ IF ~verify_webhook_signature(signature)
             THEN req' = webhook_rejected(w, signature)
             ELSE IF o > Len(orders)
             THEN req' = [req EXCEPT ![w] = [Idle EXCEPT !.pc = "done", !.op = etype,
                                             !.oid = o, !.signature = signature,
                                             !.result = "success",
                                             !.http = webhook_response(FALSE)]]
             ELSE IF already_processed(orders[o].status)
             THEN req' = [req EXCEPT ![w] = [Idle EXCEPT !.pc = "done", !.op = etype,
                                             !.oid = o, !.status = orders[o].status,
                                             !.signature = signature,
                                             !.result = "success",
                                             !.http = webhook_response(FALSE)]]
             ELSE /\ Len(ledger) < MaxLedger
                  /\ credits_remaining + orders[o].credits_purchased <= MaxCredits
                  /\ req' = [req EXCEPT ![w] = [Idle EXCEPT !.pc = "checkout_order",
                                                 !.op = etype, !.oid = o,
                                                 !.signature = signature,
                                                 !.status = orders[o].status]]
    /\ UNCHANGED <<dbVars, threads>>
    /\ UNCHANGED extVars

(* order.status = 'completed' in memory, then Account.query.get(...) *)
handle_checkout_completed_account(w) ==
    /\ req[w].pc = "checkout_order"
    /\ req' = [req EXCEPT ![w].pc = "checkout_account", ![w].credits = credits_remaining]
    /\ UNCHANGED <<dbVars, threads>>
    /\ UNCHANGED extVars

(* account.add_credits(...): its commit writes the order with the balance  *)
(* and the purchase row.                                                   *)
handle_checkout_completed_commit(w) ==
    /\ req[w].pc = "checkout_account"
    /\ LET o == req[w].oid
           r == add_credits(req[w].credits, orders[o].credits_purchased, "Purchase", o, 0)
       IN /\ orders' = [orders EXCEPT ![o].status = "completed", ![o].stripe_payment_id = o]
          /\ credits_remaining' = r.credits
          /\ ledger' = Append(ledger, r.tx)
          /\ req' = [req EXCEPT ![w].pc = "done", ![w].credits = r.credits,
                                ![w].result = "success",
                                ![w].http = webhook_response(FALSE)]
    /\ UNCHANGED <<conversions, uses_count, redemptions, threads>>
    /\ UNCHANGED extVars

(* add_credits raises: db.session.rollback() and re-raise; the webhook     *)
(* logs the error and answers with status 'error'.                         *)
handle_checkout_completed_fails(w) ==
    /\ req[w].pc = "checkout_account"
    /\ LET o == req[w].oid
           r == add_credits(req[w].credits, orders[o].credits_purchased, "Purchase", o, 0)
       IN /\ credits_remaining' = session_rollback(credits_remaining, r.credits)
          /\ req' = [req EXCEPT ![w].pc = "done", ![w].result = "error",
                                ![w].http = webhook_response(TRUE),
                                ![w].credits = session_rollback(credits_remaining, r.credits)]
    /\ UNCHANGED <<ledger, orders, conversions, uses_count, redemptions, threads>>
    /\ UNCHANGED extVars

(* ----------------- handle_payment_failed (stripe_utils.py) ------------- *)
payment_failed_status(status) == "failed"

handle_payment_failed(w) ==
    /\ req[w].pc = "idle"
    /\ \E signature \in Signatures, o \in 1..MaxOrders :
          /\ HasSession(o)
          /\ IF ~verify_webhook_signature(signature)
             THEN /\ req' = webhook_rejected(w, signature)
                  /\ UNCHANGED orders
             ELSE /\ orders' = IF o <= Len(orders)
                               THEN [orders EXCEPT ![o].status =
                                         payment_failed_status(orders[o].status)]
                               ELSE orders
                  /\ req' = [req EXCEPT ![w] = [Idle EXCEPT !.pc = "done", !.oid = o,
                                !.op = "checkout.session.async_payment_failed",
                                !.signature = signature,
                                !.result = "success",
                                !.http = webhook_response(FALSE)]]
    /\ UNCHANGED <<credits_remaining, ledger, conversions, uses_count, redemptions, threads>>
    /\ UNCHANGED extVars

(* Every other verified event is logged and acknowledged.  For             *)
(* charge.refunded, o is the order whose payment the charge is.            *)
webhook_other(w) ==
    /\ req[w].pc = "idle"
    /\ \E signature \in Signatures, etype \in OtherEvents, o \in 1..MaxOrders :
          IF ~verify_webhook_signature(signature)
          THEN req' = webhook_rejected(w, signature)
          ELSE req' = [req EXCEPT ![w] = [Idle EXCEPT !.pc = "done", !.op = etype, !.oid = o,
                                          !.signature = signature,
                                          !.result = "success",
                                          !.http = webhook_response(FALSE)]]
    /\ UNCHANGED <<dbVars, threads>>
    /\ UNCHANGED extVars

(* ---------------------- process_refund (stripe_utils.py) --------------- *)
(* After stripe.Refund.create: the order is set refunded; when the account *)
(* holds the credits of the order, the balance is lowered and a            *)
(* CreditsTransaction without balance_after and transaction_type (both     *)
(* nullable=False) is added, so the commit raises and nothing is written;  *)
(* otherwise only the order is committed.                                  *)
refund_refused(status, stripe_payment_id) ==
    status # "completed" \/ stripe_payment_id = 0

refund_debit(current_credits, refund_amount) == current_credits >= refund_amount

(* stripe_refunds[o] counts the refunds the provider has issued for the    *)
(* payment of order o; the provider refunds a payment in full only once.   *)
process_refund(w) ==
    /\ req[w].pc = "idle"
    /\ \E o \in 1..Len(orders), stripe_ok \in BOOLEAN :
          LET current_credits == credits_remaining
              refund_amount == orders[o].credits_purchased
              refused == refund_refused(orders[o].status, orders[o].stripe_payment_id)
              created == ~refused /\ stripe_ok
              debit == refund_debit(current_credits, refund_amount)
          IN /\ stripe_ok => stripe_refunds[o] = 0
             /\ stripe_refunds' = IF created
                                  THEN [stripe_refunds EXCEPT ![o] = @ + 1]
                                  ELSE stripe_refunds
             /\ orders' = IF created /\ ~debit
                          THEN [orders EXCEPT ![o].status = "refunded"]
                          ELSE orders
             /\ req' = [req EXCEPT ![w] = [Idle EXCEPT !.pc = "done", !.op = "process_refund",
                           !.oid = o,
                           !.result = IF refused THEN "ValueError"
                                      ELSE IF ~stripe_ok THEN "StripeError"
                                      ELSE IF debit
                                      THEN "IntegrityError" ELSE "refund"]]
    /\ UNCHANGED <<credits_remaining, ledger, conversions, uses_count, redemptions, threads>>
    /\ UNCHANGED loginVars

(* ---------------------- adjust_credits (app/admin/routes.py) ----------- *)
adjust_credits(w) ==
    /\ req[w].pc = "idle"
    /\ Len(ledger) < MaxLedger
    /\ \E amount \in AdjustAmounts :
          /\ credits_remaining + amount <= MaxCredits
          /\ credits_remaining' = credits_remaining + amount
          /\ ledger' = Append(ledger, CreditsTransaction(amount, credits_remaining + amount,
                                          "adjustment", "Admin adjustment", 0, 0))
          /\ req' = Done(w, "adjust_credits", "ok")
    /\ UNCHANGED <<orders, conversions, uses_count, redemptions, threads>>
    /\ UNCHANGED extVars

(* --------------------- refund_conversion (app/admin/routes.py) --------- *)
IsConversionRefund(tx, c) ==
    /\ tx.transaction_type = "refund"
    /\ tx.description = "Refund for conversion"
    /\ tx.conv = c

(* The existing_refund query, then add_credits(1.0) and its commit. *)
refund_conversion_add(w) ==
    /\ req[w].pc = "idle"
    /\ \E c \in 1..Len(conversions) :
          IF \E i \in 1..Len(ledger) : IsConversionRefund(ledger[i], c)
          THEN /\ req' = Done(w, "refund_conversion", "already refunded")
               /\ UNCHANGED <<credits_remaining, ledger>>
          ELSE /\ Len(ledger) < MaxLedger
               /\ credits_remaining + 1 <= MaxCredits
               /\ LET r == add_credits(credits_remaining, 1, "Refund for conversion", 0, c)
                  IN /\ credits_remaining' = r.credits
                     /\ ledger' = Append(ledger, r.tx)
               /\ req' = [req EXCEPT ![w] = [Idle EXCEPT !.pc = "refund_added",
                                              !.op = "refund_conversion", !.cid = c]]
    /\ UNCHANGED <<orders, conversions, uses_count, redemptions, threads>>
    /\ UNCHANGED extVars

(* The account's latest transaction is set to type 'refund' and committed. *)
refund_conversion_retype(w) ==
    /\ req[w].pc = "refund_added"
    /\ ledger' = IF ledger = <<>> THEN ledger
                 ELSE [ledger EXCEPT ![Len(ledger)].transaction_type = "refund"]
    /\ req' = Done(w, "refund_conversion", "ok")
    /\ UNCHANGED <<credits_remaining, orders, conversions, uses_count, redemptions, threads>>
    /\ UNCHANGED extVars

(* ----------------------- redeem_credits (app/launch/routes.py) --------- *)
(* PromoCode.is_valid *)
is_valid(uses, user_uses) ==
    /\ ~(uses >= PromoMaxUses)
    /\ ~(user_uses >= PROMO_MAX_USES_PER_USER)

redeem_credits_add(w) ==
    /\ req[w].pc = "idle"
    /\ IF is_valid(uses_count, redemptions) /\ redemptions = 0
       THEN /\ Len(ledger) < MaxLedger
            /\ credits_remaining + PromoCredits <= MaxCredits
            /\ LET r == add_credits(credits_remaining, PromoCredits, "Promo code", 0, 0)
               IN /\ credits_remaining' = r.credits
                  /\ ledger' = Append(ledger, r.tx)
            /\ req' = [req EXCEPT ![w] = [Idle EXCEPT !.pc = "redeem_added",
                                           !.op = "redeem_credits"]]
       ELSE /\ req' = Done(w, "redeem_credits", "invalid")
            /\ UNCHANGED <<credits_remaining, ledger>>
    /\ UNCHANGED <<orders, conversions, uses_count, redemptions, threads>>
    /\ UNCHANGED extVars

(* The PromoCodeRedemption row and promo_code.uses_count += 1, on the      *)
(* promo code loaded again after the commit of add_credits.                *)
redeem_credits_record(w) ==
    /\ req[w].pc = "redeem_added"
    /\ redemptions' = redemptions + 1
    /\ uses_count' = uses_count + 1
    /\ req' = Done(w, "redeem_credits", "ok")
    /\ UNCHANGED <<credits_remaining, ledger, orders, conversions, threads>>
    /\ UNCHANGED extVars

(* The commit of the redemption row raises: the except block rolls the    *)
(* session back; the grant add_credits has committed stays.                *)
redeem_credits_record_fails(w) ==
    /\ req[w].pc = "redeem_added"
    /\ redemptions' = session_rollback(redemptions, redemptions + 1)
    /\ uses_count' = session_rollback(uses_count, uses_count + 1)
    /\ req' = Done(w, "redeem_credits", "error")
    /\ UNCHANGED <<credits_remaining, ledger, orders, conversions, threads>>
    /\ UNCHANGED extVars

(* ------------------- retries of a conversion (routes) ------------------ *)
(* api_retry_conversion / retry: the checks, then the retry thread. *)
api_retry_conversion(w) ==
    /\ req[w].pc = "idle"
    /\ \E c \in 1..Len(conversions) :
          IF conversions[c].status # "failed"
          THEN /\ req' = Done(w, "retry", "not failed")
               /\ UNCHANGED threads
          ELSE IF conversions[c].retry_count >= MAX_USER_RETRIES
          THEN /\ req' = Done(w, "retry", "max retries")
               /\ UNCHANGED threads
          ELSE /\ threads' = Spawn("retry", c, 0)
               /\ req' = Done(w, "retry", "started")
    /\ UNCHANGED dbVars
    /\ UNCHANGED extVars

(* admin retry_conversion: failed or pending conversions are re-queued. *)
admin_retry_conversion(w) ==
    /\ req[w].pc = "idle"
    /\ \E c \in 1..Len(conversions) :
          /\ conversions[c].status \in {"failed", "pending"}
          /\ conversions[c].retry_count < MaxRetryCount
          /\ conversions' = [conversions EXCEPT ![c].status = "pending",
                                                ![c].retry_count = @ + 1]
          /\ threads' = Spawn("start", c, 0)
          /\ req' = Done(w, "admin_retry", "queued")
    /\ UNCHANGED <<credits_remaining, ledger, orders, uses_count, redemptions>>
    /\ UNCHANGED extVars

(* account retry_conversion: the row is committed pending with the count   *)
(* raised; the import of process_conversion then fails, so nothing runs.   *)
account_retry_conversion(w) ==
    /\ req[w].pc = "idle"
    /\ \E c \in 1..Len(conversions) :
          /\ conversions[c].status = "failed"
          /\ conversions[c].retry_count < MaxRetryCount
          /\ conversions' = [conversions EXCEPT ![c].status = "pending",
                                                ![c].retry_count = @ + 1]
          /\ req' = Done(w, "account_retry", "error")
    /\ UNCHANGED <<credits_remaining, ledger, orders, uses_count, redemptions, threads>>
    /\ UNCHANGED extVars

(* ------------- processing threads (app/tasks/conversion_tasks.py) ------ *)
(* retry_failed_conversion: the row is loaded in the session of the thread *)
(* and the checks are made again.                                          *)
retry_failed_conversion(t) ==
    /\ threads[t].pc = "retry"
    /\ LET c == threads[t].cid
       IN IF conversions[c].status = "failed" /\ ~(conversions[c].retry_count >= MAX_USER_RETRIES)
          THEN threads' = [threads EXCEPT ![t].pc = "retry_checked"]
          ELSE threads' = [threads EXCEPT ![t] = NoThread]
    /\ UNCHANGED <<dbVars, req>>
    /\ UNCHANGED extVars

(* conversion.status = 'pending' and its commit; the processing follows. *)
retry_failed_conversion_commit(t) ==
    /\ threads[t].pc = "retry_checked"
    /\ conversions' = [conversions EXCEPT ![threads[t].cid].status = "pending"]
    /\ threads' = [threads EXCEPT ![t].pc = "start"]
    /\ UNCHANGED <<credits_remaining, ledger, orders, uses_count, redemptions, req>>
    /\ UNCHANGED extVars

(* process_screenshot_conversion: status processing is committed and the   *)
(* expired row is loaded again for the work that follows.                  *)
process_start(t) ==
    /\ threads[t].pc = "start"
    /\ LET c == threads[t].cid
       IN /\ conversions' = [conversions EXCEPT ![c].status = "processing"]
          /\ threads' = [threads EXCEPT ![t].pc = "processing",
                                        ![t].rc = conversions[c].retry_count]
    /\ UNCHANGED <<credits_remaining, ledger, orders, uses_count, redemptions, req>>
    /\ UNCHANGED extVars

process_succeeds(t) ==
    /\ threads[t].pc = "processing"
    /\ conversions' = [conversions EXCEPT ![threads[t].cid].status = "completed"]
    /\ threads' = [threads EXCEPT ![t] = NoThread]
    /\ UNCHANGED <<credits_remaining, ledger, orders, uses_count, redemptions, req>>
    /\ UNCHANGED extVars

(* The except block: status failed and retry_count + 1 are committed. *)
process_fails(t) ==
    /\ threads[t].pc = "processing"
    /\ conversions' = [conversions EXCEPT ![threads[t].cid].status = "failed",
                                          ![threads[t].cid].retry_count = threads[t].rc + 1]
    /\ threads' = [threads EXCEPT ![t].pc = "failed"]
    /\ UNCHANGED <<credits_remaining, ledger, orders, uses_count, redemptions, req>>
    /\ UNCHANGED extVars

(* "Refund credits if this is the first attempt" *)
first_attempt(retry_count) == retry_count = 1

(* The row is read again after the commit; add_credits(1.0) on the first   *)
(* attempt.                                                                *)
process_fails_refund(t) ==
    /\ threads[t].pc = "failed"
    /\ LET c == threads[t].cid
       IN IF first_attempt(conversions[c].retry_count)
          THEN /\ Len(ledger) < MaxLedger
               /\ credits_remaining + 1 <= MaxCredits
               /\ LET r == add_credits(credits_remaining, 1, "Refund for failed conversion", 0, c)
                  IN /\ credits_remaining' = r.credits
                     /\ ledger' = Append(ledger, r.tx)
          ELSE UNCHANGED <<credits_remaining, ledger>>
    /\ threads' = [threads EXCEPT ![t] = NoThread]
    /\ UNCHANGED <<orders, conversions, uses_count, redemptions, req>>
    /\ UNCHANGED extVars

(* add_credits raises in the thread: the error is logged, the thread ends  *)
(* and its session is removed with the application context.                *)
process_fails_refund_fails(t) ==
    /\ threads[t].pc = "failed"
    /\ first_attempt(conversions[threads[t].cid].retry_count)
    /\ LET r == add_credits(credits_remaining, 1, "Refund for failed conversion", 0,
                            threads[t].cid)
       IN credits_remaining' = session_rollback(credits_remaining, r.credits)
    /\ threads' = [threads EXCEPT ![t] = [NoThread EXCEPT !.pc = "error"]]
    /\ UNCHANGED <<ledger, orders, conversions, uses_count, redemptions, req>>
    /\ UNCHANGED extVars

(* The thread has ended. *)
thread_exit(t) ==
    /\ threads[t].pc = "error"
    /\ threads' = [threads EXCEPT ![t] = NoThread]
    /\ UNCHANGED <<dbVars, req>>
    /\ UNCHANGED extVars

(* ------------------------------ next state ----------------------------- *)
UploadStep(w) ==
    \/ upload_refresh(w)
    \/ upload_deduct(w)
    \/ upload_deduct_fails(w)
    \/ upload_start_fails(w)

PayStep(w) ==
    \/ create_checkout_session(w)
    \/ cancel(w)
    \/ handle_checkout_completed_order(w)
    \/ handle_checkout_completed_account(w)
    \/ handle_checkout_completed_commit(w)
    \/ handle_checkout_completed_fails(w)
    \/ handle_payment_failed(w)
    \/ webhook_other(w)
    \/ process_refund(w)

AdminStep(w) ==
    \/ adjust_credits(w)
    \/ redeem_credits_add(w)
    \/ redeem_credits_record(w)
    \/ redeem_credits_record_fails(w)

ConvStep(w) ==
    \/ refund_conversion_add(w)
    \/ refund_conversion_retype(w)
    \/ api_retry_conversion(w)
    \/ admin_retry_conversion(w)
    \/ account_retry_conversion(w)

ThreadStep(t) ==
    \/ retry_failed_conversion(t)
    \/ retry_failed_conversion_commit(t)
    \/ process_start(t)
    \/ process_succeeds(t)
    \/ process_fails(t)
    \/ process_fails_refund(t)
    \/ process_fails_refund_fails(t)
    \/ thread_exit(t)

(* Credits and payments: one worker serves the requests one after another. *)
Next ==
    \E w \in {1} : respond(w) \/ UploadStep(w) \/ PayStep(w) \/ AdminStep(w)

Spec == Init /\ [][Next]_vars

(* Conversions: the requests of one worker, and the processing threads,    *)
(* each transaction of a thread between two requests.                      *)
NextConv ==
    \/ \E w \in {1} : respond(w) \/ UploadStep(w) \/ ConvStep(w)
    \/ AllIdle /\ \E t \in ThreadIds : ThreadStep(t)

SpecConv == Init /\ [][NextConv]_vars

(* Every operation on the credits: the requests of one worker and the      *)
(* threads.                                                                *)
NextAll ==
    \/ \E w \in {1} : respond(w) \/ UploadStep(w) \/ PayStep(w) \/ AdminStep(w) \/ ConvStep(w)
    \/ AllIdle /\ \E t \in ThreadIds : ThreadStep(t)

SpecAll == Init /\ [][NextAll]_vars

(* The credit operations called one after another on a new account:       *)
(* deduct_credits, add_credits (directly and by a completed checkout) and  *)
(* process_refund.                                                         *)
NextOps ==
    \E w \in {1} :
        \/ respond(w)
        \/ call_deduct_credits(w)
        \/ call_add_credits(w)
        \/ create_checkout_session(w)
        \/ handle_checkout_completed_order(w)
        \/ handle_checkout_completed_account(w)
        \/ handle_checkout_completed_commit(w)
        \/ process_refund(w)

SpecOps == Init /\ [][NextOps]_vars

(* Two workers serve requests at the same time: uploads, checkouts and     *)
(* webhook deliveries interleave at their reads and commits.  The account  *)
(* starts with the balance an admin adjustment has left.                   *)
InitRace ==
    /\ credits_remaining \in 1..FREE_CREDITS_ON_SIGNUP
    /\ ledger = IF credits_remaining = FREE_CREDITS_ON_SIGNUP THEN <<>>
                ELSE <<CreditsTransaction(credits_remaining - FREE_CREDITS_ON_SIGNUP,
                           credits_remaining, "adjustment", "Admin adjustment", 0, 0)>>
    /\ orders = <<>>
    /\ conversions = <<>>
    /\ uses_count = 0
    /\ redemptions = 0
    /\ req = [w \in Workers |-> Idle]
    /\ threads = [t \in 1..MaxThreads |-> NoThread]
    /\ failed_login_attempts = 0
    /\ locked_until = "none"
    /\ stripe_refunds = [o \in 1..MaxOrders |-> 0]

NextRace ==
    \E w \in Workers :
        \/ respond(w)
        \/ UploadStep(w)
        \/ create_checkout_session(w)
        \/ handle_checkout_completed_order(w)
        \/ handle_checkout_completed_account(w)
        \/ handle_checkout_completed_commit(w)
        \/ handle_checkout_completed_fails(w)

SpecRace == InitRace /\ [][NextRace]_vars

(* Retries asked by the user: uploads and retry requests of one worker,    *)
(* while the threads they start run at the same time, each in a session    *)
(* of its own.                                                             *)
InitRetry ==
    /\ credits_remaining = FREE_CREDITS_ON_SIGNUP
    /\ ledger = <<>>
    /\ orders = <<>>
    /\ conversions = <<>>
    /\ uses_count = 0
    /\ redemptions = 0
    /\ req = [w \in Workers |-> Idle]
    /\ threads = [t \in 1..(MaxThreads + 1) |-> NoThread]
    /\ failed_login_attempts = 0
    /\ locked_until = "none"
    /\ stripe_refunds = [o \in 1..MaxOrders |-> 0]

NextRetry ==
    \/ \E w \in {1} : respond(w) \/ UploadStep(w) \/ api_retry_conversion(w)
    \/ \E t \in ThreadIds : ThreadStep(t)

SpecRetry == InitRetry /\ [][NextRetry]_vars

(* Logins of the account, between its uploads, while time passes. *)
NextLogin ==
    \/ \E w \in {1} : respond(w) \/ login(w) \/ UploadStep(w)
    \/ lock_expires

SpecLogin == Init /\ [][NextLogin]_vars

(* Two workers serve promo redemptions, uploads and admin adjustments of   *)
(* one account at the same time.                                           *)
NextPromo ==
    \E w \in Workers :
        \/ respond(w)
        \/ redeem_credits_add(w)
        \/ redeem_credits_record(w)
        \/ redeem_credits_record_fails(w)
        \/ adjust_credits(w)
        \/ UploadStep(w)

SpecPromo == Init /\ [][NextPromo]_vars

(* ============================ properties =============================== *)
IsUsage(tx) == tx.transaction_type = "usage"
IsNotUsage(tx) == tx.transaction_type # "usage"
Deducted == 0 - SumAmounts(SelectSeq(ledger, IsUsage))
Granted == FREE_CREDITS_ON_SIGNUP + SumAmounts(SelectSeq(ledger, IsNotUsage))
PurchaseCount(o) ==
    Cardinality({i \in 1..Len(ledger) : /\ ledger[i].transaction_type = "purchase"
                                        /\ ledger[i].order_id = o})
FailureRefunds(c) ==
    Cardinality({i \in 1..Len(ledger) : /\ ledger[i].description = "Refund for failed conversion"
                                        /\ ledger[i].conv = c})
WebhookEvents == CheckoutEvents \cup OtherEvents \cup {"checkout.session.async_payment_failed"}

(* C1: concurrent deductions never take more in total than the credits    *)
(* that were available: the usage entries sum to at most the signup grant  *)
(* plus every other ledger entry.                                          *)
C1_DeductedWithinAvailable == Deducted <= Granted

(* C2: after any sequence of deduct_credits, add_credits and process_refund *)
(* calls with positive amounts, issued one after another against a new     *)
(* account, credits_remaining is at least zero.                            *)
C2_BalanceNeverNegative == credits_remaining >= 0

(* A deduction larger than the balance has been refused. *)
C2_Witness ==
    /\ req[1].pc = "done"
    /\ req[1].op = "deduct_credits"
    /\ req[1].result = "Insufficient credits"
    /\ req[1].credits > credits_remaining
    /\ \E i \in 1..Len(ledger) : ledger[i].transaction_type = "usage"

(* C3: the signup grant plus the sum of the amounts of the account's       *)
(* ledger entries equals credits_remaining.                                *)
C3_LedgerSumsToBalance == FREE_CREDITS_ON_SIGNUP + SumAmounts(ledger) = credits_remaining

(* Entries of a deduction and of an addition are on the ledger. *)
C3_Witness ==
    /\ Len(ledger) = MaxLedger
    /\ \E i \in 1..Len(ledger) : ledger[i].amount < 0
    /\ \E i \in 1..Len(ledger) : ledger[i].amount > 0
    /\ \E i \in 1..Len(ledger) : ledger[i].transaction_type = "purchase"

(* C4: of two checkout-completion events for one order handled one after   *)
(* the other, the one that makes the order completed adds credits_purchased *)
(* and one purchase entry carrying the order id, and the one that finds the *)
(* order completed changes neither the balance, the ledger nor the orders. *)
C4_SecondDeliveryNoOp ==
    [][\A o \in 1..Len(orders) :
         /\ (/\ orders[o].status = "completed"
             /\ \E w \in Workers : /\ req'[w] # req[w]
                                    /\ req'[w].op \in CheckoutEvents
                                    /\ req'[w].oid = o)
            => UNCHANGED <<credits_remaining, ledger, orders>>
         /\ (/\ orders[o].status # "completed"
             /\ orders'[o].status = "completed")
            => /\ credits_remaining' = credits_remaining + orders[o].credits_purchased
               /\ Len(ledger') = Len(ledger) + 1
               /\ ledger'[Len(ledger')].transaction_type = "purchase"
               /\ ledger'[Len(ledger')].order_id = o
               /\ ledger'[Len(ledger')].amount = orders[o].credits_purchased
               /\ SubSeq(ledger', 1, Len(ledger)) = ledger]_vars

(* A second delivery has been answered for an order credited once. *)
C4_Witness ==
    /\ req[1].pc = "done"
    /\ req[1].op \in CheckoutEvents
    /\ req[1].status = "completed"
    /\ PurchaseCount(req[1].oid) = 1
    /\ credits_remaining = FREE_CREDITS_ON_SIGNUP + orders[req[1].oid].credits_purchased

(* C5: when two deliveries of the completion event for one order are       *)
(* handled at the same time, the order is credited once: the ledger holds  *)
(* at most one purchase entry per order.                                   *)
C5_OnePurchasePerOrderUnderRace == \A o \in 1..Len(orders) : PurchaseCount(o) <= 1

(* C6: an order enters the completed status at most once: no step makes    *)
(* an order completed that already has a purchase entry on the ledger.     *)
C6_CompletedEnteredOnce ==
    [][\A o \in 1..Len(orders) :
         (orders[o].status # "completed" /\ orders'[o].status = "completed")
            => PurchaseCount(o) = 0]_vars

(* C7: an order's status changes only from pending to completed, from      *)
(* pending to failed, or from completed to refunded.                       *)
AllowedTransitions ==
    {<<"pending", "completed">>, <<"pending", "failed">>, <<"completed", "refunded">>}

C7_OnlyAllowedTransitions ==
    [][\A o \in 1..Len(orders) :
         orders'[o].status # orders[o].status
            => <<orders[o].status, orders'[o].status>> \in AllowedTransitions]_vars

(* C8: a webhook event that refers to an order which is already completed  *)
(* leaves that order, the balance and the ledger unchanged.                *)
C8_EventOnCompletedOrderNoOp ==
    [][\A o \in 1..Len(orders) :
         (/\ orders[o].status = "completed"
          /\ \E w \in Workers : /\ req'[w] # req[w]
                                 /\ req'[w].op \in WebhookEvents
                                 /\ req'[w].oid = o)
            => /\ orders'[o] = orders[o]
               /\ UNCHANGED <<credits_remaining, ledger>>]_vars

(* C9: when deduct_credits or add_credits fails before its commit, the     *)
(* balance and the ledger are what they were before the call, in the       *)
(* database and as the failing request sees them after the rollback.       *)
C9_FailureLeavesAccountUnchanged ==
    [][/\ \A w \in Workers :
            (req'[w].result = "error" /\ req[w].pc \in {"upload", "checkout_account"})
               => /\ UNCHANGED <<credits_remaining, ledger, orders, conversions>>
                  /\ req'[w].credits = credits_remaining
       /\ \A t \in ThreadIds :
            (threads'[t].pc = "error" /\ threads[t].pc = "failed")
               => UNCHANGED <<credits_remaining, ledger, orders, conversions>>]_vars

(* A deduction has failed in an upload that had read a positive balance. *)
C9_Witness ==
    /\ req[1].pc = "done"
    /\ req[1].result = "error"
    /\ req[1].op = "upload"
    /\ req[1].credits = credits_remaining
    /\ credits_remaining >= CREDITS_PER_CONVERSION

(* C10: however often a conversion fails, the ledger holds at most one     *)
(* failure-refund entry for it.                                            *)
C10_OneFailureRefundPerConversion ==
    \A c \in 1..Len(conversions) : FailureRefunds(c) <= 1

(* A conversion has failed a second time after its first failure was       *)
(* refunded.                                                               *)
C10_Witness ==
    \E c \in 1..Len(conversions) :
        /\ conversions[c].status = "failed"
        /\ conversions[c].retry_count >= 2
        /\ FailureRefunds(c) = 1
        /\ \A t \in ThreadIds : threads[t].pc = "free"

UsageCount(c) ==
    Cardinality({i \in 1..Len(ledger) : /\ ledger[i].transaction_type = "usage"
                                        /\ ledger[i].conv = c})

(* C11: when the processing of a conversion that had been queued again     *)
(* has ended in failure and the failure handler has run, the credit        *)
(* deducted for the conversion has been given back.                        *)
C11_CreditRestoredAfterRequeuedFailure ==
    \A c \in 1..Len(conversions) :
        (/\ conversions[c].status = "failed"
         /\ conversions[c].retry_count >= 2
         /\ UsageCount(c) = 1
         /\ \A t \in ThreadIds : threads[t].pc = "free")
           => FailureRefunds(c) >= 1

(* C12: while the external conversion call runs for a conversion, one      *)
(* credit is deducted for it and not given back by the failure handler.    *)
C12_CreditHeldWhileProcessing ==
    \A t \in ThreadIds :
        threads[t].pc = "processing"
           => UsageCount(threads[t].cid) - FailureRefunds(threads[t].cid) = 1

(* C13: a webhook request whose signature is missing or does not verify,  *)
(* or whose payload is malformed, is answered with 400 in one step that    *)
(* changes no order, balance or ledger entry and reads no event content.   *)
C13_UnverifiedWebhookRejected ==
    [][\A w \in Workers :
         (req'[w] # req[w] /\ req'[w].signature \in Signatures \ {"valid"})
            => /\ UNCHANGED dbVars
               /\ req'[w].pc = "done"
               /\ req'[w].http = 400
               /\ req'[w].op = "webhook"
               /\ req'[w].oid = 0]_vars

(* A delivery with a signature that does not verify has been rejected      *)
(* while an order it could have completed is pending.                      *)
C13_Witness ==
    /\ req[1].pc = "done"
    /\ req[1].signature = "invalid"
    /\ req[1].http = 400
    /\ \E o \in 1..Len(orders) : orders[o].status = "pending"

(* C14: every verified webhook event is answered with 200, also when its   *)
(* handler raised; a webhook answer other than 200 is the 400 given to a   *)
(* request that did not verify.                                            *)
C14_VerifiedWebhookAnswers200 ==
    [][\A w \in Workers :
         (req'[w].pc = "done" /\ req[w].pc # "done" /\ req'[w].signature # "none")
            => /\ req'[w].signature = "valid" => req'[w].http = 200
               /\ req'[w].http # 200
                     => (req'[w].http = 400 /\ req'[w].signature # "valid")]_vars

(* The crediting of a verified checkout event has failed and the delivery  *)
(* has been acknowledged.                                                  *)
C14_Witness ==
    /\ req[1].pc = "done"
    /\ req[1].op \in CheckoutEvents
    /\ req[1].signature = "valid"
    /\ req[1].result = "error"
    /\ req[1].http = 200

(* C15: a verified charge.refunded event for the payment of a completed   *)
(* order leaves that order refunded.                                       *)
C15_ChargeRefundedRefundsOrder ==
    [][\A w \in Workers :
         (/\ req[w].pc = "idle"
          /\ req'[w].pc = "done"
          /\ req'[w].op = "charge.refunded"
          /\ req'[w].oid <= Len(orders)
          /\ orders[req'[w].oid].status = "completed")
            => orders'[req'[w].oid].status = "refunded"]_vars

(* C16: a pending order has no purchase entry, and a completed order has   *)
(* exactly one, of amount credits_purchased.                               *)
C16_CompletedOrderCreditedOnce ==
    \A o \in 1..Len(orders) :
        /\ orders[o].status = "pending" => PurchaseCount(o) = 0
        /\ orders[o].status = "completed"
              => /\ PurchaseCount(o) = 1
                 /\ \A i \in 1..Len(ledger) :
                       ledger[i].order_id = o
                          => ledger[i].amount = orders[o].credits_purchased

(* C17: the committed balance is never negative, whatever operation wrote  *)
(* it, and no ledger entry records a negative balance.                     *)
C17_BalanceNonNegativeEverywhere ==
    /\ ~(credits_remaining < 0)
    /\ \A i \in 1..Len(ledger) : ~(ledger[i].balance_after < 0)

(* C18: the ledger is append-only: every step leaves the committed entries *)
(* as they were and at most adds entries after them.                       *)
C18_LedgerAppendOnly ==
    [][/\ Len(ledger') >= Len(ledger)
       /\ SubSeq(ledger', 1, Len(ledger)) = ledger]_vars

(* C19: each ledger entry's balance_after is the balance_after of the      *)
(* entry before it (for the first entry the signup balance) plus its       *)
(* amount, also when requests interleave.                                  *)
C19_BalanceAfterChain ==
    \A i \in 1..Len(ledger) :
        ledger[i].balance_after =
            (IF i = 1 THEN FREE_CREDITS_ON_SIGNUP ELSE ledger[i - 1].balance_after)
            + ledger[i].amount

PromoGrants ==
    Cardinality({i \in 1..Len(ledger) : ledger[i].description = "Promo code"})

(* C20: in every interleaving of redeem_credits requests the code's        *)
(* credits are granted at most max_uses times and to one account at most   *)
(* max_uses_per_user times.                                                *)
C20_PromoGrantsWithinCaps ==
    /\ PromoGrants <= PromoMaxUses
    /\ PromoGrants <= PROMO_MAX_USES_PER_USER

(* C21 as stated: the account becomes locked only by the failed attempt   *)
(* that makes the count since the last reset 5.                            *)
C21_LockedOnlyAtFifthFailure ==
    [][(~is_locked(locked_until) /\ is_locked(locked_until'))
          => failed_login_attempts' = MAX_FAILED_LOGINS]_vars

(* C21 amended: a failed attempt on an unlocked account raises the count   *)
(* by one and leaves the account locked exactly if the count is then 5 or  *)
(* more; a login attempt on a locked account is rejected and changes       *)
(* neither count nor lock; a successful login sets the count to 0 and      *)
(* clears locked_until.                                                    *)
C21_LockFromFifthFailureOn ==
    [][\A w \in Workers :
         (req[w].pc = "idle" /\ req'[w].op = "login")
            => /\ is_locked(locked_until)
                    => (req'[w].result = "locked" /\ UNCHANGED loginVars)
               /\ req'[w].result = "locked" => is_locked(locked_until)
               /\ req'[w].result = "invalid"
                    => /\ failed_login_attempts' = failed_login_attempts + 1
                       /\ is_locked(locked_until')
                             <=> failed_login_attempts' >= MAX_FAILED_LOGINS
               /\ req'[w].result = "welcome"
                    => (failed_login_attempts' = 0 /\ locked_until' = "none")]_vars

(* The sixth failed attempt since the last reset, made after the lock of   *)
(* the fifth has expired, has locked the account again.                    *)
C21_Witness ==
    /\ req[1].pc = "done"
    /\ req[1].op = "login"
    /\ req[1].result = "invalid"
    /\ failed_login_attempts = MAX_FAILED_LOGINS + 1
    /\ is_locked(locked_until)

C23_OneMirroringEntryPerOperation ==
    [][\A w \in Workers :
         LET a == req'[w].credits
             last == ledger'[Len(ledger')]
         IN /\ (req[w].pc = "idle" /\ req'[w].op = "deduct_credits" /\ req'[w].result = "ok")
                 => /\ credits_remaining' = credits_remaining - a
                    /\ ledger' = Append(ledger, last)
                    /\ last.transaction_type = "usage"
                    /\ last.amount = 0 - a
                    /\ last.balance_after = credits_remaining'
            /\ (req[w].pc = "idle" /\ req'[w].op = "add_credits" /\ req'[w].result = "ok")
                 => /\ credits_remaining' = credits_remaining + a
                    /\ ledger' = Append(ledger, last)
                    /\ last.transaction_type = "purchase"
                    /\ last.amount = a
                    /\ last.order_id = 0
                    /\ last.balance_after = credits_remaining'
            /\ (req[w].pc = "checkout_account" /\ req'[w].result = "success")
                 => /\ credits_remaining'
                          = credits_remaining + orders[req[w].oid].credits_purchased
                    /\ ledger' = Append(ledger, last)
                    /\ last.transaction_type = "purchase"
                    /\ last.amount = orders[req[w].oid].credits_purchased
                    /\ last.order_id = req[w].oid
                    /\ last.balance_after = credits_remaining']_vars

(* A deduction has succeeded on a ledger that holds the purchase entry of  *)
(* an order.                                                               *)
C23_Witness ==
    /\ req[1].pc = "done"
    /\ req[1].op = "deduct_credits"
    /\ req[1].result = "ok"
    /\ ledger[Len(ledger)].amount = 0 - req[1].credits
    /\ \E i \in 1..Len(ledger) : ledger[i].order_id # 0

(* A step of process_refund for order o. *)
RefundStep(w, o) ==
    /\ req[w].pc = "idle"
    /\ req'[w].op = "process_refund"
    /\ req'[w].oid = o

(* C24: process_refund on an order that is not completed fails with an     *)
(* error and leaves the order, the balance and the ledger unchanged, so    *)
(* the credits of an order are taken back at most once.                    *)
C24_RefundOfNonCompletedOrderRefused ==
    [][\A w \in Workers : \A o \in 1..Len(orders) :
         /\ (RefundStep(w, o) /\ orders[o].status # "completed")
               => /\ req'[w].result = "ValueError"
                  /\ UNCHANGED <<orders, credits_remaining, ledger, stripe_refunds>>
         /\ Cardinality({i \in 1..Len(ledger') :
                            ledger'[i].order_id = o /\ ledger'[i].amount < 0}) <= 1]_vars

(* process_refund was refused for an order that is already refunded. *)
C24_Witness ==
    /\ req[1].pc = "done"
    /\ req[1].op = "process_refund"
    /\ req[1].result = "ValueError"
    /\ orders[req[1].oid].status = "refunded"

(* C25: process_refund on a completed order whose account holds at least   *)
(* credits_purchased commits status refunded, the balance lowered by       *)
(* credits_purchased and one refund entry of amount -credits_purchased     *)
(* with balance_after the new balance and order_id the order.              *)
C25_RefundTakesCreditsBack ==
    [][\A w \in Workers : \A o \in 1..Len(orders) :
         (/\ RefundStep(w, o)
          /\ orders[o].status = "completed"
          /\ orders[o].stripe_payment_id # 0
          /\ req'[w].result # "StripeError"
          /\ credits_remaining >= orders[o].credits_purchased)
            => /\ orders'[o].status = "refunded"
               /\ credits_remaining' = credits_remaining - orders[o].credits_purchased
               /\ ledger' = Append(ledger,
                      CreditsTransaction(0 - orders[o].credits_purchased,
                                         credits_remaining', "refund", "Refund", o, 0))]_vars

(* C26: process_refund on a completed order whose account holds less than  *)
(* credits_purchased does not fail: the order becomes refunded, the        *)
(* balance is unchanged and no ledger entry is written.                    *)
C26_RefundWithoutCreditsSkipsDebit ==
    [][\A w \in Workers : \A o \in 1..Len(orders) :
         (/\ RefundStep(w, o)
          /\ orders[o].status = "completed"
          /\ orders[o].stripe_payment_id # 0
          /\ req'[w].result # "StripeError"
          /\ credits_remaining < orders[o].credits_purchased)
            => /\ req'[w].result = "refund"
               /\ orders'[o].status = "refunded"
               /\ UNCHANGED <<credits_remaining, ledger>>]_vars

(* An order was refunded while the account held less than its credits. *)
C26_Witness ==
    /\ req[1].pc = "done"
    /\ req[1].op = "process_refund"
    /\ req[1].result = "refund"
    /\ orders[req[1].oid].status = "refunded"
    /\ credits_remaining < orders[req[1].oid].credits_purchased

(* C27: a refund is issued by the provider only in a call of               *)
(* process_refund that leaves the order refunded, so that it is requested  *)
(* at most once for an order.                                              *)
C27_ProviderRefundMarksOrderRefunded ==
    [][\A o \in 1..Len(orders) :
         stripe_refunds'[o] > stripe_refunds[o] => orders'[o].status = "refunded"]_vars

(* The entries that gave a credit back for conversion c. *)
CreditsReturned(c) ==
    Cardinality({i \in 1..Len(ledger) : ledger[i].conv = c /\ ledger[i].amount > 0})

(* C28: the credits returned for a conversion by the failure handler, by   *)
(* the failed-start compensation of upload and by the admin                *)
(* refund_conversion never exceed the credit deducted for it.              *)
C28_ReturnedWithinDeducted ==
    \A c \in 1..Len(conversions) :
        CreditsReturned(c) * CREDITS_PER_CONVERSION <= UsageCount(c) * CREDITS_PER_CONVERSION

(* C29: with retries asked by the user only, also when retry requests for *)
(* the same failed conversion run at the same time, the retry_count of a   *)
(* conversion never exceeds 3.                                             *)
C29_RetryCountWithinLimit ==
    \A c \in 1..Len(conversions) : conversions[c].retry_count <= MAX_USER_RETRIES

(* C30: whenever no redeem_credits request is between its two commits,    *)
(* uses_count equals the number of redemption rows and the number of promo *)
(* grants in the ledger: a redemption that fails grants nothing.            *)
C30_RedemptionAllOrNothing ==
    (\A w \in Workers : req[w].pc # "redeem_added")
        => /\ uses_count = redemptions
           /\ redemptions = PromoGrants

====
